---- MODULE Spec2Model ----
(***************************************************************************)
(* State-machine model of cmd/main.go of the GCE metadata server launcher: *)
(* configuration loading, the credential resolver (four strategies), the  *)
(* descriptor validator and the server lifecycle driven by OS signals.     *)
(* Library calls (os.ReadFile, impersonate, google, tpm2, mds) are opaque: *)
(* each returns either success or an error, chosen nondeterministically.   *)
(* Signals are modelled from the point where signal.Notify has registered  *)
(* the done channel.                                                       *)
(***************************************************************************)
EXTENDS Integers, Sequences, FiniteSets, TLC

\* ---------------------------------------------------------------- bounds
\* number of termination signals the environment delivers in one run
MaxSignals == 2

\* ------------------------------------------------------- program constants
\* done := make(chan os.Signal, 1)
ChanCap == 1
\* default of the persistentHandle flag, 0x81008000, kept as its two 16-bit
\* halves <<0x8100, 0x8000>> (the value exceeds the checker's integer range)
DefaultPersistentHandle == <<33024, 32768>>
ZeroHandle == <<0, 0>>

\* ------------------------------------------------------------ input domains
Handles == {ZeroHandle, DefaultPersistentHandle}
EnvValues == {"", "/path/adc.json"}
Emails == {"svc@proj.iam", ""}
Projects == {"proj", "other"}
Signals == {"SIGINT", "SIGTERM"}

\* a Go interface{} value read out of map[string]interface{}
IfaceOfString(s) == [type |-> "string", val |-> s]
IfaceNil == [type |-> "nil", val |-> ""]
IfaceNumber == [type |-> "float64", val |-> "1"]
DescriptorEmails ==
  {IfaceNil, IfaceNumber, IfaceOfString(""), IfaceOfString("svc@proj.iam"),
   IfaceOfString("other@proj.iam")}

\* var creds *google.Credentials (nil until a branch assigns it)
NilCreds == [kind |-> "nil", ProjectID |-> "", client_email |-> IfaceNil]

\* &mds.Claims{} before json.Unmarshal fills it
EmptyClaims == [hasDefault |-> FALSE, Email |-> "", ProjectID |-> ""]
ClaimsValues ==
  {[hasDefault |-> FALSE, Email |-> "", ProjectID |-> p] : p \in Projects}
  \cup {[hasDefault |-> TRUE, Email |-> e, ProjectID |-> p] :
          e \in Emails, p \in Projects}

VARIABLES pc, flags, env, persistentHandle, claims, creds, credsAssigns,
          strategy, ops, tpmOpen, warnings, handed, calls, registered, done,
          sigCount, observed, startRet, shutdownRet, exitCode, exitReason

vars == <<pc, flags, env, persistentHandle, claims, creds, credsAssigns,
          strategy, ops, tpmOpen, warnings, handed, calls, registered, done,
          sigCount, observed, startRet, shutdownRet, exitCode, exitReason>>

\* ------------------------------------------------------------ pure helpers
\* if *useImpersonate {..} else if *useFederate {..} else if *useTPM {..} else {..}
SelectStrategy_TPMFirst(f) ==
  IF f.tpm THEN "TPM"
  ELSE IF f.impersonate THEN "Impersonation"
  ELSE IF f.federate THEN "Federation"
  ELSE "ServiceAccountFile"

SelectStrategy(f) ==
  IF f.impersonate THEN "Impersonation"
  ELSE IF f.federate THEN "Federation"
  ELSE IF f.tpm THEN "TPM"
  ELSE "ServiceAccountFile"

\* order of the statements of main: the position that follows p on success
Succ_CheckAfterOpen(p, s) ==
  CASE p = "readConfig" -> "parseConfig"
    [] p = "parseConfig" -> "checkDefault"
    [] p = "checkDefault" -> "select"
    [] p = "select" ->
         (CASE s = "Impersonation" -> "impersonate"
            [] s = "Federation" -> "fedGetenv"
            [] s = "TPM" -> "tpmOpen"
            [] OTHER -> "fileRead")
    [] p = "impersonate" -> "newServer"
    [] p = "fedGetenv" -> "fedFind"
    [] p = "fedFind" -> "newServer"
    [] p = "tpmOpen" -> "tpmClose"
    [] p = "tpmClose" -> "tpmHandle"
    [] p = "tpmHandle" -> "newServer"
    [] p = "fileRead" -> "fileParse"
    [] p = "fileParse" -> "cmpProject"
    [] p = "cmpProject" -> "reparse"
    [] p = "reparse" -> "cmpEmail"
    [] p = "cmpEmail" -> "newServer"
    [] p = "newServer" -> "notify"
    [] p = "notify" -> "startCall"
    [] p = "startCall" -> "startRet"
    [] p = "startRet" -> "wait"
    [] p = "wait" -> "shutdownCall"
    [] p = "shutdownCall" -> "shutdownRet"
    [] OTHER -> "exited"

Succ_NotifyAfterStart(p, s) ==
  CASE p = "readConfig" -> "parseConfig"
    [] p = "parseConfig" -> "checkDefault"
    [] p = "checkDefault" -> "select"
    [] p = "select" ->
         (CASE s = "Impersonation" -> "impersonate"
            [] s = "Federation" -> "fedGetenv"
            [] s = "TPM" -> "tpmHandle"
            [] OTHER -> "fileRead")
    [] p = "impersonate" -> "newServer"
    [] p = "fedGetenv" -> "fedFind"
    [] p = "fedFind" -> "newServer"
    [] p = "tpmHandle" -> "tpmOpen"
    [] p = "tpmOpen" -> "tpmClose"
    [] p = "tpmClose" -> "newServer"
    [] p = "fileRead" -> "fileParse"
    [] p = "fileParse" -> "cmpProject"
    [] p = "cmpProject" -> "reparse"
    [] p = "reparse" -> "cmpEmail"
    [] p = "cmpEmail" -> "newServer"
    [] p = "newServer" -> "startCall"
    [] p = "startCall" -> "startRet"
    [] p = "startRet" -> "notify"
    [] p = "notify" -> "wait"
    [] p = "wait" -> "shutdownCall"
    [] p = "shutdownCall" -> "shutdownRet"
    [] OTHER -> "exited"

Succ(p, s) ==
  CASE p = "readConfig" -> "parseConfig"
    [] p = "parseConfig" -> "checkDefault"
    [] p = "checkDefault" -> "select"
    [] p = "select" ->
         (CASE s = "Impersonation" -> "impersonate"
            [] s = "Federation" -> "fedGetenv"
            [] s = "TPM" -> "tpmHandle"
            [] OTHER -> "fileRead")
    [] p = "impersonate" -> "newServer"
    [] p = "fedGetenv" -> "fedFind"
    [] p = "fedFind" -> "newServer"
    [] p = "tpmHandle" -> "tpmOpen"
    [] p = "tpmOpen" -> "tpmClose"
    [] p = "tpmClose" -> "newServer"
    [] p = "fileRead" -> "fileParse"
    [] p = "fileParse" -> "cmpProject"
    [] p = "cmpProject" -> "reparse"
    [] p = "reparse" -> "cmpEmail"
    [] p = "cmpEmail" -> "newServer"
    [] p = "newServer" -> "notify"
    [] p = "notify" -> "startCall"
    [] p = "startCall" -> "startRet"
    [] p = "startRet" -> "wait"
    [] p = "wait" -> "shutdownCall"
    [] p = "shutdownCall" -> "shutdownRet"
    [] OTHER -> "exited"

\* the argument of os.Exit at each fatal site
ExitArg_ShutdownZero(reason) ==
  IF reason \in {"configRead", "configParse", "noDefault"} THEN -1
  ELSE IF reason = "shutdown" THEN 0
  ELSE 1

ExitArg(reason) ==
  IF reason \in {"configRead", "configParse", "noDefault"} THEN -1 ELSE 1

\* the exit status the parent observes: the low 8 bits of the argument
ExitStatus(code) == code % 256

\* os.Getenv("GOOGLE_APPLICATION_CREDENTIALS") == ""
EnvMissing_Never(v) == FALSE

EnvMissing(v) == v = ""

\* *persistentHandle == 0
HandleInvalid(h) == h = ZeroHandle

\* creds = &google.Credentials{TokenSource: ts}
WrapTokenSource_Dropped(ts) == NilCreds

WrapTokenSource(ts) ==
  [kind |-> ts, ProjectID |-> "", client_email |-> IfaceNil]

\* err != nil after rwc.Close()
CloseFailed_Ignored(ok) == FALSE

CloseFailed(ok) == ~ok

\* err != nil after f.Start()
StartFailed_Ignored(ok) == FALSE

StartFailed(ok) == ~ok

\* creds.ProjectID != claims.ComputeMetadata.V1.Project.ProjectID
ProjectDiffers(credProject, claimProject) == credProject # claimProject

\* credFileEmail != claims...ServiceAccounts["default"].Email
\* (an interface{} compared with a string)
EmailDiffers_AbsentIsEmpty(credFileEmail, email) ==
  (IF credFileEmail.type = "nil" THEN "" ELSE credFileEmail.val) # email

EmailDiffers(credFileEmail, email) == credFileEmail # IfaceOfString(email)

\* <-done can complete only when the channel holds a value
CanReceive_NonBlocking(ch) == TRUE

CanReceive(ch) == Len(ch) > 0

\* signal.Notify's delivery is a non-blocking send
NotifySend(ch, sig) == IF Len(ch) < ChanCap THEN Append(ch, sig) ELSE ch

\* serverConfig := &mds.ServerConfig{...}: the flags are copied unchanged
ServerConfig(f, h) ==
  [Impersonate |-> f.impersonate, Federate |-> f.federate, UseTPM |-> f.tpm,
   PersistentHandle |-> h]

\* nothing has been passed to mds.NewMetadataServer yet
NotHanded ==
  [called |-> FALSE, creds |-> NilCreds,
   config |-> ServerConfig([impersonate |-> FALSE, federate |-> FALSE,
                            tpm |-> FALSE], ZeroHandle)]

\* ---------------------------------------------------------------- control
Goto(p) == pc' = p /\ UNCHANGED <<exitCode, exitReason>>

Exit(reason) ==
  /\ pc' = "exited"
  /\ exitCode' = ExitStatus(ExitArg(reason))
  /\ exitReason' = reason

Next_(p) == Succ(p, strategy)

LogOp(name, ok) == ops' = Append(ops, [op |-> name, ok |-> ok])

Init ==
  /\ pc = "readConfig"
  /\ flags \in [impersonate : BOOLEAN, federate : BOOLEAN, tpm : BOOLEAN]
  /\ env \in EnvValues
  /\ persistentHandle \in Handles
  /\ claims = EmptyClaims
  /\ creds = NilCreds
  /\ credsAssigns = 0
  /\ strategy = "None"
  /\ ops = <<>>
  /\ tpmOpen = FALSE
  /\ warnings = <<>>
  /\ handed = NotHanded
  /\ calls = [newServer |-> 0, start |-> 0, shutdown |-> 0]
  /\ registered = FALSE
  /\ done = <<>>
  /\ sigCount = 0
  /\ observed = FALSE
  /\ startRet = "none"
  /\ shutdownRet = "none"
  /\ exitCode = 0
  /\ exitReason = "running"

\* ------------------------------------------------------- claims store glue
\* configData, err := os.ReadFile(*configFile)
ReadConfig ==
  /\ pc = "readConfig"
  /\ \E ok \in BOOLEAN :
       IF ok THEN Goto(Next_("readConfig")) ELSE Exit("configRead")
  /\ UNCHANGED <<flags, env, persistentHandle, claims, creds, credsAssigns,
                 strategy, ops, tpmOpen, warnings, handed, calls, registered,
                 done, sigCount, observed, startRet, shutdownRet>>

\* err = json.Unmarshal(configData, claims)
ParseConfig ==
  /\ pc = "parseConfig"
  /\ \/ /\ Exit("configParse")
        /\ UNCHANGED claims
     \/ /\ \E c \in ClaimsValues : claims' = c
        /\ Goto(Next_("parseConfig"))
  /\ UNCHANGED <<flags, env, persistentHandle, creds, credsAssigns,
                 strategy, ops, tpmOpen, warnings, handed, calls, registered,
                 done, sigCount, observed, startRet, shutdownRet>>

\* _, ok := ...ServiceAccounts["default"]; if !ok { os.Exit(-1) }
CheckDefault ==
  /\ pc = "checkDefault"
  /\ IF claims.hasDefault THEN Goto(Next_("checkDefault"))
     ELSE Exit("noDefault")
  /\ UNCHANGED <<flags, env, persistentHandle, claims, creds, credsAssigns,
                 strategy, ops, tpmOpen, warnings, handed, calls, registered,
                 done, sigCount, observed, startRet, shutdownRet>>

\* ------------------------------------------------------ credential resolver
\* the if / else-if chain on the three flags
Select ==
  /\ pc = "select"
  /\ strategy' = SelectStrategy(flags)
  /\ Goto(Succ("select", strategy'))
  /\ UNCHANGED <<flags, env, persistentHandle, claims, creds, credsAssigns,
                 ops, tpmOpen, warnings, handed, calls, registered,
                 done, sigCount, observed, startRet, shutdownRet>>

\* ts, err := impersonate.CredentialsTokenSource(...); creds = &Credentials{ts}
Impersonate ==
  /\ pc = "impersonate"
  /\ \E ok \in BOOLEAN :
       /\ LogOp("CredentialsTokenSource", ok)
       /\ IF ok
          THEN /\ creds' = WrapTokenSource("impersonated")
               /\ credsAssigns' = credsAssigns + 1
               /\ Goto(Next_("impersonate"))
          ELSE /\ UNCHANGED <<creds, credsAssigns>>
               /\ Exit("impersonate")
  /\ UNCHANGED <<flags, env, persistentHandle, claims, strategy, tpmOpen,
                 warnings, handed, calls, registered, done, sigCount,
                 observed, startRet, shutdownRet>>

\* if os.Getenv("GOOGLE_APPLICATION_CREDENTIALS") == "" { os.Exit(1) }
FedGetenv ==
  /\ pc = "fedGetenv"
  /\ IF EnvMissing(env) THEN Exit("envMissing") ELSE Goto(Next_("fedGetenv"))
  /\ UNCHANGED <<flags, env, persistentHandle, claims, creds, credsAssigns,
                 strategy, ops, tpmOpen, warnings, handed, calls, registered,
                 done, sigCount, observed, startRet, shutdownRet>>

\* creds, err = google.FindDefaultCredentials(ctx, scopes...)
\* (with the variable empty the library falls back to other ambient sources)
FedFind ==
  /\ pc = "fedFind"
  /\ \E ok \in BOOLEAN :
       /\ LogOp("FindDefaultCredentials", ok)
       /\ credsAssigns' = credsAssigns + 1
       /\ IF ok
          THEN /\ creds' = [kind |-> "federated", ProjectID |-> "",
                            client_email |-> IfaceNil]
               /\ Goto(Next_("fedFind"))
          ELSE /\ creds' = NilCreds
               /\ Exit("fedFind")
  /\ UNCHANGED <<flags, env, persistentHandle, claims, strategy, tpmOpen,
                 warnings, handed, calls, registered, done, sigCount,
                 observed, startRet, shutdownRet>>

\* if *persistentHandle == 0 { os.Exit(1) }
TpmHandle ==
  /\ pc = "tpmHandle"
  /\ IF HandleInvalid(persistentHandle) THEN Exit("zeroHandle")
     ELSE Goto(Next_("tpmHandle"))
  /\ UNCHANGED <<flags, env, persistentHandle, claims, creds, credsAssigns,
                 strategy, ops, tpmOpen, warnings, handed, calls, registered,
                 done, sigCount, observed, startRet, shutdownRet>>

\* rwc, err := tpm2.OpenTPM(*tpmPath)
TpmOpen ==
  /\ pc = "tpmOpen"
  /\ \E ok \in BOOLEAN :
       /\ LogOp("OpenTPM", ok)
       /\ tpmOpen' = ok
       /\ IF ok THEN Goto(Next_("tpmOpen")) ELSE Exit("tpmOpen")
  /\ UNCHANGED <<flags, env, persistentHandle, claims, creds, credsAssigns,
                 strategy, warnings, handed, calls, registered, done,
                 sigCount, observed, startRet, shutdownRet>>

\* err = rwc.Close(); a failed close may leave the descriptor open
TpmClose ==
  /\ pc = "tpmClose"
  /\ \E ok \in BOOLEAN :
       /\ LogOp("Close", ok)
       /\ IF ok THEN tpmOpen' = FALSE ELSE tpmOpen' \in BOOLEAN
       /\ IF CloseFailed(ok) THEN Exit("tpmClose")
          ELSE Goto(Next_("tpmClose"))
  /\ UNCHANGED <<flags, env, persistentHandle, claims, creds, credsAssigns,
                 strategy, warnings, handed, calls, registered, done,
                 sigCount, observed, startRet, shutdownRet>>

\* data, err := os.ReadFile(*serviceAccountFile)
FileRead ==
  /\ pc = "fileRead"
  /\ \E ok \in BOOLEAN :
       /\ LogOp("ReadFile", ok)
       /\ IF ok THEN Goto(Next_("fileRead")) ELSE Exit("fileRead")
  /\ UNCHANGED <<flags, env, persistentHandle, claims, creds, credsAssigns,
                 strategy, tpmOpen, warnings, handed, calls, registered,
                 done, sigCount, observed, startRet, shutdownRet>>

\* creds, err = google.CredentialsFromJSON(ctx, data, scopes...)
FileParse ==
  /\ pc = "fileParse"
  /\ credsAssigns' = credsAssigns + 1
  /\ \/ /\ LogOp("CredentialsFromJSON", FALSE)
        /\ creds' = NilCreds
        /\ Exit("fileParse")
     \/ /\ LogOp("CredentialsFromJSON", TRUE)
        /\ \E p \in Projects, e \in DescriptorEmails :
             creds' = [kind |-> "file", ProjectID |-> p, client_email |-> e]
        /\ Goto(Next_("fileParse"))
  /\ UNCHANGED <<flags, env, persistentHandle, claims, strategy, tpmOpen,
                 warnings, handed, calls, registered, done, sigCount,
                 observed, startRet, shutdownRet>>

\* ------------------------------------------------------ credential validator
\* if creds.ProjectID != claims...ProjectID { glog.Warningf(...) }
CmpProject ==
  /\ pc = "cmpProject"
  /\ warnings' = IF ProjectDiffers(creds.ProjectID, claims.ProjectID)
                 THEN Append(warnings, "project") ELSE warnings
  /\ Goto(Next_("cmpProject"))
  /\ UNCHANGED <<flags, env, persistentHandle, claims, creds, credsAssigns,
                 strategy, ops, tpmOpen, handed, calls, registered, done,
                 sigCount, observed, startRet, shutdownRet>>

\* err = json.Unmarshal(creds.JSON, &credJsonMap)
Reparse ==
  /\ pc = "reparse"
  /\ \E ok \in BOOLEAN :
       /\ LogOp("Unmarshal", ok)
       /\ IF ok THEN Goto(Next_("reparse")) ELSE Exit("reparse")
  /\ UNCHANGED <<flags, env, persistentHandle, claims, creds, credsAssigns,
                 strategy, tpmOpen, warnings, handed, calls, registered,
                 done, sigCount, observed, startRet, shutdownRet>>

\* credFileEmail := credJsonMap["client_email"]; compare with the claims
CmpEmail ==
  /\ pc = "cmpEmail"
  /\ warnings' = IF EmailDiffers(creds.client_email, claims.Email)
                 THEN Append(warnings, "email") ELSE warnings
  /\ Goto(Next_("cmpEmail"))
  /\ UNCHANGED <<flags, env, persistentHandle, claims, creds, credsAssigns,
                 strategy, ops, tpmOpen, handed, calls, registered, done,
                 sigCount, observed, startRet, shutdownRet>>

\* ----------------------------------------------------- lifecycle orchestrator
\* f, err := mds.NewMetadataServer(ctx, serverConfig, creds, claims)
NewServer ==
  /\ pc = "newServer"
  /\ handed' = [called |-> TRUE, creds |-> creds,
                config |-> ServerConfig(flags, persistentHandle)]
  /\ calls' = [calls EXCEPT !.newServer = @ + 1]
  /\ \E ok \in BOOLEAN :
       IF ok THEN Goto(Next_("newServer")) ELSE Exit("newServer")
  /\ UNCHANGED <<flags, env, persistentHandle, claims, creds, credsAssigns,
                 strategy, ops, tpmOpen, warnings, registered, done,
                 sigCount, observed, startRet, shutdownRet>>

\* done := make(chan os.Signal, 1); signal.Notify(done, ...)
Notify ==
  /\ pc = "notify"
  /\ registered' = TRUE
  /\ done' = <<>>
  /\ Goto(Next_("notify"))
  /\ UNCHANGED <<flags, env, persistentHandle, claims, creds, credsAssigns,
                 strategy, ops, tpmOpen, warnings, handed, calls,
                 sigCount, observed, startRet, shutdownRet>>

\* err = f.Start()   (the call)
StartCall ==
  /\ pc = "startCall"
  /\ calls' = [calls EXCEPT !.start = @ + 1]
  /\ Goto(Next_("startCall"))
  /\ UNCHANGED <<flags, env, persistentHandle, claims, creds, credsAssigns,
                 strategy, ops, tpmOpen, warnings, handed, registered, done,
                 sigCount, observed, startRet, shutdownRet>>

\* err = f.Start()   (the return and the error check)
StartReturn ==
  /\ pc = "startRet"
  /\ \E ok \in BOOLEAN :
       /\ startRet' = IF ok THEN "ok" ELSE "err"
       /\ IF StartFailed(ok) THEN Exit("start") ELSE Goto(Next_("startRet"))
  /\ UNCHANGED <<flags, env, persistentHandle, claims, creds, credsAssigns,
                 strategy, ops, tpmOpen, warnings, handed, calls, registered,
                 done, sigCount, observed, shutdownRet>>

\* <-done
Receive ==
  /\ pc = "wait"
  /\ CanReceive(done)
  /\ IF Len(done) > 0
     THEN done' = Tail(done) /\ observed' = TRUE
     ELSE UNCHANGED <<done, observed>>
  /\ Goto(Next_("wait"))
  /\ UNCHANGED <<flags, env, persistentHandle, claims, creds, credsAssigns,
                 strategy, ops, tpmOpen, warnings, handed, calls, registered,
                 sigCount, startRet, shutdownRet>>

\* err = f.Shutdown()   (the call)
ShutdownCall ==
  /\ pc = "shutdownCall"
  /\ calls' = [calls EXCEPT !.shutdown = @ + 1]
  /\ Goto(Next_("shutdownCall"))
  /\ UNCHANGED <<flags, env, persistentHandle, claims, creds, credsAssigns,
                 strategy, ops, tpmOpen, warnings, handed, registered, done,
                 sigCount, observed, startRet, shutdownRet>>

\* err = f.Shutdown()   (the return, the error check, the end of main)
ShutdownReturn ==
  /\ pc = "shutdownRet"
  /\ \E ok \in BOOLEAN :
       /\ shutdownRet' = IF ok THEN "ok" ELSE "err"
       /\ IF ok
          THEN pc' = "exited" /\ exitCode' = 0 /\ exitReason' = "returned"
          ELSE Exit("shutdown")
  /\ UNCHANGED <<flags, env, persistentHandle, claims, creds, credsAssigns,
                 strategy, ops, tpmOpen, warnings, handed, calls, registered,
                 done, sigCount, observed, startRet>>

\* ----------------------------------------------------------- environment
\* the OS delivers SIGINT or SIGTERM to the process after registration
Deliver ==
  /\ registered
  /\ pc # "exited"
  /\ sigCount < MaxSignals
  /\ \E sig \in Signals : done' = NotifySend(done, sig)
  /\ sigCount' = sigCount + 1
  /\ UNCHANGED <<pc, flags, env, persistentHandle, claims, creds,
                 credsAssigns, strategy, ops, tpmOpen, warnings, handed,
                 calls, registered, observed, startRet, shutdownRet,
                 exitCode, exitReason>>

MainStep ==
  \/ ReadConfig \/ ParseConfig \/ CheckDefault \/ Select
  \/ Impersonate \/ FedGetenv \/ FedFind
  \/ TpmHandle \/ TpmOpen \/ TpmClose
  \/ FileRead \/ FileParse \/ CmpProject \/ Reparse \/ CmpEmail
  \/ NewServer \/ Notify \/ StartCall \/ StartReturn
  \/ Receive \/ ShutdownCall \/ ShutdownReturn

Next == MainStep \/ Deliver

Spec == Init /\ [][Next]_vars

\* main is the only goroutine of this program and runs whenever it can
FairSpec == Spec /\ WF_vars(MainStep)

\* ================================================================ properties
PreResolverPcs == {"readConfig", "parseConfig", "checkDefault"}
ResolverPcs ==
  {"select", "impersonate", "fedGetenv", "fedFind", "tpmHandle", "tpmOpen",
   "tpmClose", "fileRead", "fileParse", "cmpProject", "reparse", "cmpEmail"}
LifecyclePcs ==
  {"newServer", "notify", "startCall", "startRet", "wait", "shutdownCall",
   "shutdownRet"}
ConfigLoadReasons == {"configRead", "configParse"}
ResolverReasons ==
  {"impersonate", "envMissing", "fedFind", "zeroHandle", "tpmOpen",
   "tpmClose", "fileRead", "fileParse", "reparse"}
LifecycleReasons == {"newServer", "start", "shutdown"}

\* the external operations that belong to each strategy
OpsOf(s) ==
  CASE s = "Impersonation" -> {"CredentialsTokenSource"}
    [] s = "Federation" -> {"FindDefaultCredentials"}
    [] s = "TPM" -> {"OpenTPM", "Close"}
    [] s = "ServiceAccountFile" -> {"ReadFile", "CredentialsFromJSON", "Unmarshal"}
    [] OTHER -> {}

OpNames == {ops[i].op : i \in DOMAIN ops}
AllOpsOK == \A i \in DOMAIN ops : ops[i].ok
OpFailed(name) == \E i \in DOMAIN ops : ops[i].op = name /\ ~ops[i].ok
CountOf(seq, x) == Cardinality({i \in DOMAIN seq : seq[i] = x})

\* the resolver step is over: main is at or past NewMetadataServer, or exited
ResolverOver == strategy # "None" /\ pc \notin ResolverPcs

\* the preconditions of the selected strategy hold and its calls succeeded
PrecondsHold ==
  /\ claims.hasDefault
  /\ strategy = "Federation" => env # ""
  /\ strategy = "TPM" => persistentHandle # ZeroHandle
  /\ AllOpsOK

\* C1 (as stated): with valid preconditions the resolver finishes without
\* error under each of the four strategies and the credential handed to
\* NewMetadataServer is exactly one non-absent credential.
C1_Original ==
  (ResolverOver /\ PrecondsHold) =>
     /\ exitReason \notin ResolverReasons
     /\ creds # NilCreds /\ credsAssigns = 1
     /\ handed.called => handed.creds = creds

\* C1 (amended): with valid preconditions the resolver finishes without error
\* under each of the four strategies; under Impersonation, Federation and
\* ServiceAccountFile exactly one non-absent credential is assigned and handed
\* to NewMetadataServer, while under TPM no credential is assigned and
\* NewMetadataServer receives the absent (nil) credential.
C1_ResolverProduces ==
  (ResolverOver /\ PrecondsHold) =>
     /\ exitReason \notin ResolverReasons
     /\ strategy # "TPM" => (creds # NilCreds /\ credsAssigns = 1)
     /\ strategy = "TPM" => (creds = NilCreds /\ credsAssigns = 0)
     /\ handed.called => handed.creds = creds

C1_Witness ==
  /\ strategy = "TPM" /\ PrecondsHold
  /\ handed.called /\ handed.creds = NilCreds
  /\ OpNames = {"OpenTPM", "Close"}

\* C2: Shutdown() is invoked only if Start() returned without error, and a
\* run that ends after Start() returned without error has invoked Shutdown().
C2_ShutdownIffStart ==
  /\ calls.shutdown > 0 => startRet = "ok"
  /\ (pc = "exited" /\ startRet = "ok") => calls.shutdown > 0
  /\ (pc = "exited" /\ startRet # "ok") => calls.shutdown = 0

C2_Witness ==
  pc = "exited" /\ startRet = "ok" /\ calls.shutdown = 1 /\ calls.start = 1

\* C3: Shutdown() is invoked at most once and only after a signal was
\* received from the done channel; once Shutdown() has returned, or the
\* process has exited, no further Start() or Shutdown() call happens.
C3_ShutdownOnceAfterSignal ==
  /\ [](calls.shutdown <= 1 /\ calls.start <= 1)
  /\ [](calls.shutdown > 0 => (observed /\ sigCount > 0))
  /\ [][(shutdownRet # "none" \/ pc = "exited")
          => (calls' = calls /\ pc' = "exited")]_vars

C3_Witness ==
  calls.shutdown = 1 /\ observed /\ shutdownRet = "ok" /\ pc = "exited"

\* the resolver fails for the selected strategy, or "default" is absent
DefaultAbsent ==
  /\ pc \notin {"readConfig", "parseConfig"}
  /\ exitReason \notin ConfigLoadReasons
  /\ ~claims.hasDefault
ResolverFails ==
  \/ DefaultAbsent
  \/ strategy = "Federation" /\ env = ""
  \/ strategy = "TPM" /\ persistentHandle = ZeroHandle
  \/ ~AllOpsOK

\* C4: when the resolver fails or the default service account is absent, the
\* run never gets past the resolver: NewMetadataServer, Start() and
\* Shutdown() are not invoked, no credential is left assigned for the listed
\* failures, no operation is retried, no other strategy's operation runs, and
\* the process terminates.
C4_ResolverFailureIsFatal ==
  /\ [](ResolverFails =>
          /\ ~handed.called
          /\ calls = [newServer |-> 0, start |-> 0, shutdown |-> 0]
          /\ pc \in PreResolverPcs \cup ResolverPcs \cup {"exited"}
          /\ (pc = "exited" /\ exitReason # "reparse") => creds = NilCreds
          /\ \A n \in OpNames : CountOf([i \in DOMAIN ops |-> ops[i].op], n) = 1
          /\ OpNames \subseteq OpsOf(strategy)
          /\ CountOf([i \in DOMAIN ops |-> ops[i].ok], FALSE) <= 1)
  /\ (ResolverFails ~> (pc = "exited" /\ exitCode # 0))

C4_Witness ==
  /\ pc = "exited" /\ exitReason = "envMissing" /\ strategy = "Federation"
  /\ env = "" /\ calls.newServer = 0

\* C5: a configuration error (no "default" service account, empty ambient
\* variable under Federation, zero handle under TPM) ends the run before any
\* acquisition operation: nothing was impersonated, discovered, opened or read.
C5_ConfigErrorsBeforeAcquisition ==
  exitReason \in {"noDefault", "envMissing", "zeroHandle"} =>
     /\ ops = <<>>
     /\ ~tpmOpen
     /\ creds = NilCreds /\ credsAssigns = 0

C5_Witness ==
  /\ pc = "exited" /\ exitReason = "zeroHandle" /\ strategy = "TPM"
  /\ persistentHandle = ZeroHandle

\* the validator has run to its end (both comparisons made)
ValidatorOver ==
  /\ strategy = "ServiceAccountFile"
  /\ pc \notin ResolverPcs
  /\ exitReason \notin ResolverReasons
ProjectCompared ==
  /\ strategy = "ServiceAccountFile"
  /\ pc \in {"reparse", "cmpEmail"} \/ exitReason = "reparse" \/ ValidatorOver

\* C6: warnings come only from the ServiceAccountFile strategy: one project
\* warning iff the descriptor's project id differs from the claims' project
\* id, one email warning iff the descriptor's client_email differs from the
\* default service account's email, none otherwise and none under the other
\* strategies; a mismatch is not fatal: once the validator is over the run is
\* at NewMetadataServer or beyond, and it reaches Start() unless
\* NewMetadataServer itself fails.
C6_ValidatorWarnings ==
  /\ strategy # "ServiceAccountFile" => warnings = <<>>
  /\ \A i \in DOMAIN warnings : warnings[i] \in {"project", "email"}
  /\ ProjectCompared =>
       CountOf(warnings, "project") =
         (IF creds.ProjectID = claims.ProjectID THEN 0 ELSE 1)
  /\ ~ProjectCompared => CountOf(warnings, "project") = 0
  /\ ValidatorOver =>
       CountOf(warnings, "email") =
         (IF creds.client_email.type = "string"
             /\ creds.client_email.val = claims.Email THEN 0 ELSE 1)
  /\ ~ValidatorOver => CountOf(warnings, "email") = 0
  /\ ValidatorOver =>
       /\ pc = "newServer" \/ handed.called
       /\ pc = "exited" => exitReason \in LifecycleReasons \cup {"returned"}
       /\ (pc = "exited" /\ exitReason # "newServer") => calls.start = 1

C6_Witness ==
  /\ strategy = "ServiceAccountFile"
  /\ warnings = <<"project", "email">>
  /\ creds.client_email = IfaceOfString("other@proj.iam")
  /\ calls.newServer = 1 /\ calls.start = 1

\* the graceful path: Start() succeeded, a signal was received, Shutdown()
\* returned without error
Graceful == startRet = "ok" /\ observed /\ shutdownRet = "ok"

\* C7: the exit code is 0 exactly on the graceful path and lies in 1..255 on
\* every fatal path.
C7_ExitCode ==
  pc = "exited" =>
     /\ (exitCode = 0) <=> Graceful
     /\ Graceful <=> exitReason = "returned"
     /\ exitReason \in ConfigLoadReasons \cup {"noDefault"} \cup
                       ResolverReasons \cup LifecycleReasons
          => exitCode \in 1..255
     /\ exitReason \in ConfigLoadReasons \cup {"noDefault"} \cup
                       ResolverReasons \cup LifecycleReasons \cup {"returned"}

C7_Witness ==
  pc = "exited" /\ exitCode = 0 /\ Graceful /\ calls.shutdown = 1

\* C8: the branch taken follows the priority Impersonation > Federation > TPM
\* > ServiceAccountFile for every flag combination, is chosen once and never
\* changes, only the chosen strategy's operations are performed, and several
\* flags set together are passed on unchanged instead of being rejected.
C8_StrategyPriority ==
  /\ [](strategy # "None" =>
          /\ (strategy = "Impersonation") <=> flags.impersonate
          /\ (strategy = "Federation") <=> (~flags.impersonate /\ flags.federate)
          /\ (strategy = "TPM") <=>
               (~flags.impersonate /\ ~flags.federate /\ flags.tpm)
          /\ (strategy = "ServiceAccountFile") <=>
               (~flags.impersonate /\ ~flags.federate /\ ~flags.tpm))
  /\ [](OpNames \subseteq OpsOf(strategy))
  /\ []((pc \in ResolverPcs \ {"select"} \/ pc \in LifecyclePcs)
          => strategy # "None")
  /\ [](handed.called =>
          handed.config = [Impersonate |-> flags.impersonate,
                           Federate |-> flags.federate,
                           UseTPM |-> flags.tpm,
                           PersistentHandle |-> persistentHandle])
  /\ [][strategy # "None" => strategy' = strategy]_vars
  /\ [][flags' = flags]_vars

C8_Witness ==
  /\ flags = [impersonate |-> FALSE, federate |-> TRUE, tpm |-> TRUE]
  /\ strategy = "Federation"
  /\ OpNames = {"FindDefaultCredentials"}
  /\ calls.start = 1

\* C9: from the NewMetadataServer call onwards no TPM handle is open, and a
\* failed close ends the run before the server is created.
C9_NoOpenHandleAfterResolver ==
  /\ (pc \in LifecyclePcs \/ handed.called) => ~tpmOpen
  /\ OpFailed("Close") =>
       (pc = "exited" /\ exitReason = "tpmClose" /\ ~handed.called)
  /\ tpmOpen => (strategy = "TPM" /\ pc \in {"tpmClose", "exited"})

C9_Witness ==
  /\ strategy = "TPM" /\ pc = "startCall" /\ ~tpmOpen
  /\ ops = <<[op |-> "OpenTPM", ok |-> TRUE], [op |-> "Close", ok |-> TRUE]>>

\* C10: the done channel is registered before Start() is called; a signal
\* delivered after registration stays buffered until main receives it, so the
\* run then goes on to Shutdown() (if Start() succeeded) and terminates;
\* with no signal delivered main stays blocked at the receive.
C10_SignalNotLost ==
  /\ [](pc \in {"startCall", "startRet", "wait", "shutdownCall", "shutdownRet"}
          => registered)
  /\ []((sigCount > 0 /\ pc \in {"startCall", "startRet", "wait"})
          => Len(done) = 1)
  /\ [](Len(done) <= 1)
  /\ [](pc \in {"shutdownCall", "shutdownRet"} => sigCount > 0)
  /\ [][(pc = "wait" /\ Len(done) = 0) => pc' = "wait"]_vars
  /\ (sigCount > 0 ~> pc = "exited")
  /\ ((sigCount > 0 /\ startRet = "ok") ~> calls.shutdown = 1)

C10_Witness ==
  pc = "startRet" /\ sigCount > 0 /\ Len(done) = 1 /\ startRet = "none"
====
